---- MODULE Spec2Model ----
(***************************************************************************)
(* Model of the transaction persistence reconciler of the bridge front     *)
(* end: CompletedTransactionSaver (save-on-completion effect and the       *)
(* expired-status recovery), one instance per browser session (tab), all   *)
(* sessions talking to the same bridge_transactions table.                 *)
(***************************************************************************)
EXTENDS Naturals, Sequences, FiniteSets

VARIABLES
    store,              \* bridge_transactions: sequence of rows, row id = index
    orderDetails,       \* prop orderDetails of each session
    simulateSuccess,    \* prop simulateSuccess of each session
    token,              \* prop token of each session (TRUE: a non-empty string)
    transactionSaved,   \* prop transactionSaved of each session
    checkingDb,         \* the parent's "checking" flag behind setCheckingDb
    hasCheckedExpiredOrderRef, \* hasCheckedExpiredOrderRef.current of each session
    lastSaveEffect,     \* which branch the last run of the save effect took
    procs,              \* the async invocations (saveTransaction, handleExpiredStatus)
    changes,            \* number of prop changes the parent has made so far
    lastPriceCheck,     \* useBridgeService: state lastPriceCheck
    priceCalls,         \* useBridgeService: the invocations of calculatePrice
    catalogCall,        \* useBridgeService: the current call of fetchCurrencies
    isSubmitting,       \* BridgeForm: state isSubmitting
    handlerSees,        \* BridgeForm: isSubmitting as the rendered handler captured it
    submissions,        \* BridgeForm: the runs of handleBridgeAssets past its guard
    ignoredClicks       \* BridgeForm: whether a click returned at the guard

vars == << store, orderDetails, simulateSuccess, token, transactionSaved,
           checkingDb, hasCheckedExpiredOrderRef, lastSaveEffect, procs, changes >>

priceVars == << lastPriceCheck, priceCalls >>

catalogVars == << catalogCall >>

formVars == << isSubmitting, handlerSees, submissions, ignoredClicks >>

allVars == << vars, priceVars, catalogVars, formVars >>

----------------------------------------------------------------------------
(* Bounds *)

MaxProcs == 2
MaxChanges == 2
MaxPriceCalls == 2
MaxCatalogLen == 2
MaxSubmissions == 3

----------------------------------------------------------------------------
(* Values *)

Sessions == {1, 2}

NoId == ""
OrderIds == {"FF-A", "FF-B"}

NoRaw == [status |-> "null", n |-> 0]
Payloads == { [status |-> "DONE", n |-> 1],
              [status |-> "DONE", n |-> 2],
              [status |-> "EXPIRED", n |-> 1] }

Statuses == {"processing", "completed", "expired"}

NullOrder == [present |-> FALSE, orderId |-> NoId, currentStatus |-> "null",
              rawApiResponse |-> NoRaw]

Orders ==
    [present : {TRUE}, orderId : OrderIds \cup {NoId}, currentStatus : Statuses,
     rawApiResponse : Payloads \cup {NoRaw}]

Truthy(raw) == raw # NoRaw

Last(q) == IF Len(q) = 0 THEN "none" ELSE q[Len(q)]

NoRef == "null"
NoToast == "none"

\* useBridgeService: the sides and the data of a quote without content
NoSide == [amount |-> << >>, currency |-> "", rate |-> << 0, 1 >>]

NoData == [from |-> NoSide, to |-> NoSide]

\* lastPriceCheck === null, and the null calculatePrice returns
NoQuote == [code |-> 1, msg |-> "null", data |-> NoData, ttl |-> 0]

\* useBridgeService: no answer of the edge function bridge-currencies yet
NoCatalogAnswer == [kind |-> "none", code |-> 1, shape |-> "absent", list |-> << >>]

\* useBridgeService: fetchCurrencies has not been called
IdleCatalog ==
    [pc |-> "idle", answer |-> NoCatalogAnswer, ret |-> << >>, toasts |-> 0,
     threw |-> FALSE]

----------------------------------------------------------------------------
(* The persistent store: table bridge_transactions, unique on ff_order_id *)

Row(id, status, raw) ==
    [ff_order_id |-> id, status |-> status, raw_api_response |-> raw]

RowsFor(st, id) == { k \in 1..Len(st) : st[k].ff_order_id = id }

\* select(...).eq('ff_order_id', id).limit(1): the first matching row, if any
StoreSelect(st, id) ==
    IF RowsFor(st, id) = {} THEN << >>
    ELSE << st[CHOOSE k \in RowsFor(st, id) : \A j \in RowsFor(st, id) : k <= j] >>

\* a table without the unique constraint on ff_order_id
NoUniqueConstraint(st, id) == FALSE

\* the unique constraint on ff_order_id: an insert of an existing key is rejected
StoreRejectsInsert(st, id) == RowsFor(st, id) # {}

StoreInsert(st, row) == Append(st, row)

\* update(patch).eq('ff_order_id', id): patches every matching row
StoreUpdate(st, id, patch) ==
    [k \in 1..Len(st) |->
        IF st[k].ff_order_id = id
        THEN [st[k] EXCEPT !.status = patch.status,
                           !.raw_api_response = patch.raw_api_response]
        ELSE st[k]]

\* error messages of the store, as the set of phrases the message contains
DupMsg == {"duplicate key", "unique constraint"}
OtherMsgs == { {"permission denied"}, {} }

----------------------------------------------------------------------------
(* The save effect *)

\* the guards without the check of the order's status
SaveEffectBranchNoStatusGuard(od, sim, saved) ==
    IF sim THEN "skip-simulate"
    ELSE IF saved THEN "skip-saved"
    ELSE IF ~od.present \/ od.orderId = NoId THEN "skip-missing"
    ELSE IF ~Truthy(od.rawApiResponse) THEN "skip-raw"
    ELSE "save"

\* the guards without the check of the saved flag
SaveEffectBranchNoSavedGuard(od, sim, saved) ==
    IF sim THEN "skip-simulate"
    ELSE IF ~od.present \/ od.orderId = NoId THEN "skip-missing"
    ELSE IF od.currentStatus # "completed" THEN "skip-status"
    ELSE IF ~Truthy(od.rawApiResponse) THEN "skip-raw"
    ELSE "save"

\* the branch the guards of the save effect take
SaveEffectBranch(od, sim, saved) ==
    IF sim THEN "skip-simulate"
    ELSE IF saved THEN "skip-saved"
    ELSE IF ~od.present \/ od.orderId = NoId THEN "skip-missing"
    ELSE IF od.currentStatus # "completed" THEN "skip-status"
    ELSE IF ~Truthy(od.rawApiResponse) THEN "skip-raw"
    ELSE "save"

\* an invocation record; od is the orderDetails its closure captured
Proc(kind, s, od, pc, ops) ==
    [kind |-> kind, s |-> s, od |-> od, pc |-> pc, ops |-> ops,
     resps |-> << >>, toast |-> NoToast, saved |-> FALSE, ret |-> "none",
     upd |-> NullOrder, qp |-> FALSE, tp |-> FALSE]

\* a session that gives up after its first attempt
SaveSpawnNoRetry(s, od, sim, saved) ==
    IF /\ SaveEffectBranch(od, sim, saved) = "save"
       /\ \A i \in 1..Len(procs) : ~(procs[i].kind = "save" /\ procs[i].s = s)
    THEN << Proc("save", s, od, "select", << "select" >>) >>
    ELSE << >>

\* saveTransaction() runs up to its first await: the select is issued
SaveSpawn(s, od, sim, saved) ==
    IF SaveEffectBranch(od, sim, saved) = "save"
    THEN << Proc("save", s, od, "select", << "select" >>) >>
    ELSE << >>

\* a check for a phrase the store's uniqueness violation does not contain
IsDuplicateErrorWrongPhrase(msg) == "duplicate entry" \in msg

\* error.message?.includes('duplicate key') || error.message?.includes('unique constraint')
IsDuplicateError(msg) == "duplicate key" \in msg \/ "unique constraint" \in msg

----------------------------------------------------------------------------
(* The expired-check effect *)

\* the condition without the comparison with the marker
ShouldCheckIgnoresMarker(od, ref) ==
    od.currentStatus = "expired" \/ od.rawApiResponse.status = "EXPIRED"

ShouldCheckExpiredStatus(od, ref) ==
    /\ od.currentStatus = "expired" \/ od.rawApiResponse.status = "EXPIRED"
    /\ ref # od.orderId

\* a guard that does not ask for the token
ExpiredGuardIgnoresToken(od, tok) == ~od.present \/ od.orderId = NoId

\* the guard of handleExpiredStatus
ExpiredGuardFails(od, tok) == ~od.present \/ od.orderId = NoId \/ ~tok

\* the query awaited alone, without the timer to race it
ExpiredSpawnNoTimer(s, od, tok, ref) ==
    IF ~ShouldCheckExpiredStatus(od, ref) THEN << >>
    ELSE IF ExpiredGuardFails(od, tok)
    THEN << [Proc("expired", s, od, "done", << >>) EXCEPT !.ret = "false"] >>
    ELSE << [Proc("expired", s, od, "race", << "select" >>)
                EXCEPT !.qp = TRUE] >>

\* handleExpiredStatus() runs up to its first await: either the guard returns
\* false, or the query is issued and the 2 s timer started
ExpiredSpawn(s, od, tok, ref) ==
    IF ~ShouldCheckExpiredStatus(od, ref) THEN << >>
    ELSE IF ExpiredGuardFails(od, tok)
    THEN << [Proc("expired", s, od, "done", << >>) EXCEPT !.ret = "false"] >>
    ELSE << [Proc("expired", s, od, "race", << "select" >>)
                EXCEPT !.qp = TRUE, !.tp = TRUE] >>

\* the value of the checking flag after the expired-check effect ran
CheckingAfterExpiredEffect(chk, od, tok, ref) ==
    IF ShouldCheckExpiredStatus(od, ref) /\ ExpiredGuardFails(od, tok)
    THEN FALSE ELSE chk

----------------------------------------------------------------------------
(* Initial state: both sessions have mounted with an order still in progress *)

InitialOrder ==
    [present |-> TRUE, orderId |-> "FF-A", currentStatus |-> "processing",
     rawApiResponse |-> NoRaw]

\* rows the table may hold before any session saves: none, or a record of
\* FF-A, written with or without a raw response
InitialStores ==
    { << >>,
      << Row("FF-A", "completed", NoRaw) >>,
      << Row("FF-A", "completed", [status |-> "DONE", n |-> 1]) >> }

\* the props a session is mounted with and keeps: simulateSuccess and whether
\* it has a token; at most the first session deviates from the usual ones
SessionProps ==
    { [simulate |-> FALSE, token |-> TRUE],
      [simulate |-> TRUE, token |-> TRUE],
      [simulate |-> FALSE, token |-> FALSE] }

UsualProps == [simulate |-> FALSE, token |-> TRUE]

Init ==
    /\ store \in InitialStores
    /\ orderDetails = [s \in Sessions |-> InitialOrder]
    /\ \E c \in SessionProps :
          /\ c = UsualProps \/ store = << >>
          /\ simulateSuccess = [s \in Sessions |-> s = 1 /\ c.simulate]
          /\ token = [s \in Sessions |-> s # 1 \/ c.token]
          /\ lastSaveEffect = [s \in Sessions |->
                 SaveEffectBranch(InitialOrder, s = 1 /\ c.simulate, FALSE)]
    /\ transactionSaved = [s \in Sessions |-> FALSE]
    /\ checkingDb = [s \in Sessions |-> FALSE]
    /\ hasCheckedExpiredOrderRef = [s \in Sessions |-> NoRef]
    /\ procs = << >>
    /\ changes = 0
    /\ lastPriceCheck = NoQuote
    /\ priceCalls = << >>
    /\ catalogCall = IdleCatalog
    /\ isSubmitting = FALSE
    /\ handlerSees = FALSE
    /\ submissions = << >>
    /\ ignoredClicks = FALSE

----------------------------------------------------------------------------
(* Re-render of a session: the effects whose dependencies changed run again *)

\* orderDetails of session s became o: both effects run, on the invocation
\* list P and the checking flag c
RenderOrder(s, o, P, c) ==
    LET new == P \o SaveSpawn(s, o, simulateSuccess[s], transactionSaved[s])
                 \o ExpiredSpawn(s, o, token[s], hasCheckedExpiredOrderRef[s])
    IN  /\ Len(new) <= MaxProcs
        /\ procs' = new
        /\ orderDetails' = [orderDetails EXCEPT ![s] = o]
        /\ lastSaveEffect' = [lastSaveEffect EXCEPT ![s] =
               SaveEffectBranch(o, simulateSuccess[s], transactionSaved[s])]
        /\ checkingDb' = [checkingDb EXCEPT ![s] =
               CheckingAfterExpiredEffect(c, o, token[s],
                                          hasCheckedExpiredOrderRef[s])]

\* setTransactionSaved(true) in session s: a change of the flag re-renders and
\* the save effect runs again (and returns at its saved guard)
MarkSaved(s) ==
    /\ transactionSaved' = [transactionSaved EXCEPT ![s] = TRUE]
    /\ lastSaveEffect' =
          IF transactionSaved[s] THEN lastSaveEffect
          ELSE [lastSaveEffect EXCEPT ![s] =
                   SaveEffectBranch(orderDetails[s], simulateSuccess[s], TRUE)]

----------------------------------------------------------------------------
(* The parent component: new props *)

\* what a status poll may report to the first session: the status and the
\* raw response
PollResults ==
    { << "completed", [status |-> "DONE", n |-> 1] >>,
      << "completed", NoRaw >>,
      << "expired", NoRaw >>,
      << "expired", [status |-> "DONE", n |-> 1] >>,
      << "processing", [status |-> "EXPIRED", n |-> 1] >> }

\* the order objects the parent may hand over next.  First session: a status
\* poll changes the status and the raw response, a navigation changes the
\* order id, and the order may be unloaded and loaded again.  The session in
\* the other tab sees its order complete, with a later raw response.
NextOrders(s, od) ==
    IF s # 1
    THEN { [od EXCEPT !.currentStatus = "completed",
                      !.rawApiResponse = [status |-> "DONE", n |-> 2]] }
    ELSE IF ~od.present THEN {InitialOrder}
    ELSE { [od EXCEPT !.currentStatus = r[1], !.rawApiResponse = r[2]] :
              r \in PollResults }
         \cup { [od EXCEPT !.orderId = id] : id \in OrderIds \cup {NoId} }
         \cup { NullOrder }

\* the parent hands the session a new order object (an equal one included);
\* it raises its checking indicator when the order shows as expired
OrderChange(s, o) ==
    /\ changes < MaxChanges
    /\ o \in NextOrders(s, orderDetails[s])
    /\ changes' = changes + 1
    /\ RenderOrder(s, o, procs,
                   IF o.currentStatus = "expired" THEN TRUE ELSE checkingDb[s])
    /\ UNCHANGED << store, simulateSuccess, token, transactionSaved,
                    hasCheckedExpiredOrderRef, priceVars, catalogVars, formVars >>

----------------------------------------------------------------------------
(* saveTransaction: one action per await *)

IsAt(i, kind, pc) ==
    /\ i \in 1..Len(procs)
    /\ procs[i].kind = kind
    /\ procs[i].pc = pc

Finish(p, resp, toast) ==
    [p EXCEPT !.pc = "done", !.resps = Append(@, resp), !.toast = toast]

\* the select error reported without the return: the flow goes on to insert
AfterSelectErrorFallsThrough(p) ==
    [p EXCEPT !.pc = "insert", !.resps = Append(@, "error"),
              !.toast = "Database Error: Failed to check for existing transaction",
              !.ops = Append(@, "insert")]

\* if (selectError): toast and return
AfterSelectError(p) ==
    Finish(p, "error", "Database Error: Failed to check for existing transaction")

\* the select for an existing record answers with an error
SaveSelectError(i) ==
    /\ IsAt(i, "save", "select")
    /\ procs' = [procs EXCEPT ![i] = AfterSelectError(@)]
    /\ UNCHANGED << store, orderDetails, simulateSuccess, token,
                    transactionSaved, checkingDb, hasCheckedExpiredOrderRef,
                    lastSaveEffect, changes, priceVars, catalogVars, formVars >>

\* an await of saveTransaction outside the inner try block rejects
SaveThrows(i) ==
    /\ IsAt(i, "save", "select") \/ IsAt(i, "save", "update")
    /\ procs' = [procs EXCEPT ![i] = Finish(@, "throw",
                    "Unexpected Error: An unexpected error occurred while saving the transaction")]
    /\ UNCHANGED << store, orderDetails, simulateSuccess, token,
                    transactionSaved, checkingDb, hasCheckedExpiredOrderRef,
                    lastSaveEffect, changes, priceVars, catalogVars, formVars >>

\* the existence check ignored: every save inserts
AfterSelectAlwaysInserts(p, rows) ==
    [p EXCEPT !.pc = "insert",
              !.resps = Append(@, IF Len(rows) > 0 THEN "rows" ELSE "empty"),
              !.ops = Append(@, "insert")]

\* after a select without error: update the existing record, or insert
AfterSelect(p, rows) ==
    IF Len(rows) > 0
    THEN IF Truthy(p.od.rawApiResponse)
         THEN [p EXCEPT !.pc = "update", !.resps = Append(@, "rows"),
                        !.ops = Append(@, "update")]
         ELSE [p EXCEPT !.pc = "done", !.resps = Append(@, "rows"), !.saved = TRUE]
    ELSE [p EXCEPT !.pc = "insert", !.resps = Append(@, "empty"),
                   !.ops = Append(@, "insert")]

\* the select answers with the rows of the order id
SaveSelectOk(i) ==
    /\ IsAt(i, "save", "select")
    /\ LET p == AfterSelect(procs[i], StoreSelect(store, procs[i].od.orderId))
       IN  /\ procs' = [procs EXCEPT ![i] = p]
           /\ IF p.saved
              THEN MarkSaved(p.s)
              ELSE UNCHANGED << transactionSaved, lastSaveEffect >>
    /\ UNCHANGED << store, orderDetails, simulateSuccess, token, checkingDb,
                    hasCheckedExpiredOrderRef, changes, priceVars, catalogVars, formVars >>

\* a patch that does not carry the order's raw response
UpdatePatchWithoutRaw(od) ==
    [status |-> "completed", raw_api_response |-> NoRaw]

\* the patch of the update of an existing record
UpdatePatch(od) ==
    [status |-> "completed", raw_api_response |-> od.rawApiResponse]

\* after the update answered (ok: without error): only logged either way
AfterUpdate(p, ok) ==
    [p EXCEPT !.pc = "done", !.resps = Append(@, IF ok THEN "ok" ELSE "error"),
              !.saved = TRUE]

\* the update of the existing record answers, with or without an error
SaveUpdateResolve(i, ok) ==
    /\ IsAt(i, "save", "update")
    /\ store' = IF ok
                THEN StoreUpdate(store, procs[i].od.orderId,
                                 UpdatePatch(procs[i].od))
                ELSE store
    /\ LET p == AfterUpdate(procs[i], ok)
       IN  /\ procs' = [procs EXCEPT ![i] = p]
           /\ IF p.saved
              THEN MarkSaved(p.s)
              ELSE UNCHANGED << transactionSaved, lastSaveEffect >>
    /\ UNCHANGED << orderDetails, simulateSuccess, token, checkingDb,
                    hasCheckedExpiredOrderRef, changes, priceVars, catalogVars, formVars >>

\* a record written without the order's raw response
InsertRecordWithoutRaw(od) == Row(od.orderId, "completed", NoRaw)

\* the record the insert writes (the columns the model follows)
InsertRecord(od) == Row(od.orderId, "completed", od.rawApiResponse)

\* what the store answered to the insert, for the invocation's record
InsertAnswer(hasError, msg) ==
    IF ~hasError THEN "ok" ELSE IF msg = DupMsg THEN "unique" ELSE "error"

\* every insert error taken for "already saved"
AfterInsertAlwaysSaved(p, hasError, msg) ==
    [p EXCEPT !.pc = "done", !.resps = Append(@, InsertAnswer(hasError, msg)),
              !.saved = TRUE]

\* after the insert answered: hasError and the error's message
AfterInsert(p, hasError, msg) ==
    IF hasError
    THEN IF IsDuplicateError(msg)
         THEN [p EXCEPT !.pc = "done",
                        !.resps = Append(@, InsertAnswer(hasError, msg)),
                        !.saved = TRUE]
         ELSE Finish(p, InsertAnswer(hasError, msg),
                     "Database Error: Failed to save transaction")
    ELSE [p EXCEPT !.pc = "done", !.resps = Append(@, "ok"), !.saved = TRUE]

\* the store executes the insert: rejected when the key exists, else appended
SaveInsertResolve(i) ==
    /\ IsAt(i, "save", "insert")
    /\ LET rejected == StoreRejectsInsert(store, procs[i].od.orderId)
           p == AfterInsert(procs[i], rejected, DupMsg)
       IN  /\ store' = IF rejected THEN store
                       ELSE StoreInsert(store, InsertRecord(procs[i].od))
           /\ procs' = [procs EXCEPT ![i] = p]
           /\ IF p.saved
              THEN MarkSaved(p.s)
              ELSE UNCHANGED << transactionSaved, lastSaveEffect >>
    /\ UNCHANGED << orderDetails, simulateSuccess, token, checkingDb,
                    hasCheckedExpiredOrderRef, changes, priceVars, catalogVars, formVars >>

\* the insert answers with an error that is no uniqueness violation
SaveInsertError(i, msg) ==
    /\ IsAt(i, "save", "insert")
    /\ LET p == AfterInsert(procs[i], TRUE, msg)
       IN  /\ procs' = [procs EXCEPT ![i] = p]
           /\ IF p.saved
              THEN MarkSaved(p.s)
              ELSE UNCHANGED << transactionSaved, lastSaveEffect >>
    /\ UNCHANGED << store, orderDetails, simulateSuccess, token, checkingDb,
                    hasCheckedExpiredOrderRef, changes, priceVars, catalogVars, formVars >>

\* the await of the insert rejects: caught by the inner catch
SaveInsertThrows(i) ==
    /\ IsAt(i, "save", "insert")
    /\ procs' = [procs EXCEPT ![i] = Finish(@, "throw",
                    "Database Error: Failed to save transaction")]
    /\ UNCHANGED << store, orderDetails, simulateSuccess, token,
                    transactionSaved, checkingDb, hasCheckedExpiredOrderRef,
                    lastSaveEffect, changes, priceVars, catalogVars, formVars >>

----------------------------------------------------------------------------
(* handleExpiredStatus: the race of the query against the 2 s timer, and the
   200 ms timers *)

\* the record's raw response taken as it is, absent or not
UpdatedDetailsNoFallback(od, dbTransaction) ==
    [od EXCEPT !.currentStatus = "completed",
               !.rawApiResponse = dbTransaction.raw_api_response]

\* the order handed to onOrderDetailsUpdate for the record found
UpdatedDetails(od, dbTransaction) ==
    [od EXCEPT !.currentStatus = "completed",
               !.rawApiResponse =
                   IF Truthy(dbTransaction.raw_api_response)
                   THEN dbTransaction.raw_api_response
                   ELSE od.rawApiResponse]

\* a failure exit that only logs
ExpiredFailSilent(p, resp, toast) ==
    [p EXCEPT !.pc = "done", !.resps = Append(@, resp), !.ret = "false"]

\* the failure exits of handleExpiredStatus: toast, setCheckingDb(false), false
ExpiredFail(p, resp, toast) ==
    [p EXCEPT !.pc = "done", !.resps = Append(@, resp), !.toast = toast, !.ret = "false"]

\* an empty result taken for a recovery
AfterExpiredQueryEmptyRecovers(p, results) ==
    IF Len(results) > 0
    THEN [p EXCEPT !.pc = "delayUpdate", !.resps = Append(@, "rows"), !.ret = "true",
                   !.upd = UpdatedDetails(p.od, results[1])]
    ELSE [p EXCEPT !.pc = "delayUpdate", !.resps = Append(@, "empty"), !.ret = "true",
                   !.upd = [p.od EXCEPT !.currentStatus = "completed"]]

\* after the query won the race without error
AfterExpiredQuery(p, results) ==
    IF Len(results) > 0
    THEN [p EXCEPT !.pc = "delayUpdate", !.resps = Append(@, "rows"), !.ret = "true",
                   !.upd = UpdatedDetails(p.od, results[1])]
    ELSE [p EXCEPT !.pc = "delayClear", !.resps = Append(@, "empty"), !.ret = "false"]

\* the query settles first, with rows
ExpiredQueryOk(i) ==
    /\ IsAt(i, "expired", "race")
    /\ procs[i].qp
    /\ procs' = [procs EXCEPT ![i] =
           [AfterExpiredQuery(@, StoreSelect(store, @.od.orderId))
               EXCEPT !.qp = FALSE]]
    /\ UNCHANGED << store, orderDetails, simulateSuccess, token,
                    transactionSaved, checkingDb, hasCheckedExpiredOrderRef,
                    lastSaveEffect, changes, priceVars, catalogVars, formVars >>

\* the query settles first, with an error (resolved = TRUE: it resolved with
\* an error object, FALSE: it rejected)
ExpiredQueryFails(i, resolved) ==
    /\ IsAt(i, "expired", "race")
    /\ procs[i].qp
    /\ procs' = [procs EXCEPT ![i] =
           [(IF resolved
             THEN ExpiredFail(@, "error",
                      "Database Error: Failed to check for transaction status")
             ELSE ExpiredFail(@, "throw",
                      "Error: Failed to check transaction status"))
               EXCEPT !.qp = FALSE]]
    /\ checkingDb' = [checkingDb EXCEPT ![procs[i].s] = FALSE]
    /\ UNCHANGED << store, orderDetails, simulateSuccess, token,
                    transactionSaved, hasCheckedExpiredOrderRef,
                    lastSaveEffect, changes, priceVars, catalogVars, formVars >>

\* a catch block that forgets to clear the checking flag
ExpiredTimeoutKeepsFlag(i) ==
    /\ IsAt(i, "expired", "race")
    /\ procs[i].tp
    /\ procs' = [procs EXCEPT ![i] =
           [ExpiredFail(@, "timeout", "Error: Failed to check transaction status")
               EXCEPT !.tp = FALSE]]
    /\ UNCHANGED << store, orderDetails, simulateSuccess, token, checkingDb,
                    transactionSaved, hasCheckedExpiredOrderRef,
                    lastSaveEffect, changes, priceVars, catalogVars, formVars >>

\* the 2 s timer fires first: the race rejects with "Database query timeout"
ExpiredTimeout(i) ==
    /\ IsAt(i, "expired", "race")
    /\ procs[i].tp
    /\ procs' = [procs EXCEPT ![i] =
           [ExpiredFail(@, "timeout", "Error: Failed to check transaction status")
               EXCEPT !.tp = FALSE]]
    /\ checkingDb' = [checkingDb EXCEPT ![procs[i].s] = FALSE]
    /\ UNCHANGED << store, orderDetails, simulateSuccess, token,
                    transactionSaved, hasCheckedExpiredOrderRef,
                    lastSaveEffect, changes, priceVars, catalogVars, formVars >>

\* a late settlement handled like a first one: notification and flag change
ExpiredLoserReports(i) ==
    /\ i \in 1..Len(procs)
    /\ procs[i].kind = "expired"
    /\ procs[i].pc # "race"
    /\ procs[i].qp \/ procs[i].tp
    /\ procs' = [procs EXCEPT ![i] =
           [@ EXCEPT !.qp = FALSE, !.tp = FALSE,
                     !.toast = "Error: Failed to check transaction status"]]
    /\ checkingDb' = [checkingDb EXCEPT ![procs[i].s] = FALSE]
    /\ UNCHANGED << store, orderDetails, simulateSuccess, token,
                    transactionSaved, hasCheckedExpiredOrderRef,
                    lastSaveEffect, changes, priceVars, catalogVars, formVars >>

\* the loser of the race settles later: the settled race ignores it
ExpiredLoserSettles(i) ==
    /\ i \in 1..Len(procs)
    /\ procs[i].kind = "expired"
    /\ procs[i].pc # "race"
    /\ procs[i].qp \/ procs[i].tp
    /\ procs' = [procs EXCEPT ![i] = [@ EXCEPT !.qp = FALSE, !.tp = FALSE]]
    /\ UNCHANGED << store, orderDetails, simulateSuccess, token,
                    transactionSaved, checkingDb, hasCheckedExpiredOrderRef,
                    lastSaveEffect, changes, priceVars, catalogVars, formVars >>

\* the 200 ms timer of the found path: onOrderDetailsUpdate(updatedDetails),
\* setCheckingDb(false); the parent stores the order it is handed
ExpiredApplyUpdate(i) ==
    /\ IsAt(i, "expired", "delayUpdate")
    /\ RenderOrder(procs[i].s, procs[i].upd,
                   [procs EXCEPT ![i] = [@ EXCEPT !.pc = "done"]], FALSE)
    /\ UNCHANGED << store, simulateSuccess, token, transactionSaved,
                    hasCheckedExpiredOrderRef, changes, priceVars, catalogVars, formVars >>

\* the 200 ms timer of the not-found path: setCheckingDb(false)
ExpiredClearChecking(i) ==
    /\ IsAt(i, "expired", "delayClear")
    /\ procs' = [procs EXCEPT ![i] = [@ EXCEPT !.pc = "done"]]
    /\ checkingDb' = [checkingDb EXCEPT ![procs[i].s] = FALSE]
    /\ UNCHANGED << store, orderDetails, simulateSuccess, token,
                    transactionSaved, hasCheckedExpiredOrderRef,
                    lastSaveEffect, changes, priceVars, catalogVars, formVars >>

----------------------------------------------------------------------------
(* useBridgeService: calculatePrice.  Strings that are parsed are sequences
   of characters; numbers are kept in thousandths. *)

Digits == << "0", "1", "2", "3", "4", "5", "6", "7", "8", "9" >>

IsDigit(c) == \E k \in 1..Len(Digits) : Digits[k] = c

DigitValue(c) == (CHOOSE k \in 1..Len(Digits) : Digits[k] = c) - 1

NaN == [nan |-> TRUE, neg |-> FALSE, milli |-> 0]

RECURSIVE SkipSpaces(_)
SkipSpaces(q) ==
    IF Len(q) > 0 /\ q[1] = " " THEN SkipSpaces(Tail(q)) ELSE q

\* the digits q starts with
RECURSIVE LeadingDigits(_)
LeadingDigits(q) ==
    IF Len(q) > 0 /\ IsDigit(q[1])
    THEN << q[1] >> \o LeadingDigits(Tail(q))
    ELSE << >>

\* the value of a run of digits as an integer part
RECURSIVE IntegerValue(_)
IntegerValue(d) ==
    IF Len(d) = 0 THEN 0
    ELSE 10 * IntegerValue(SubSeq(d, 1, Len(d) - 1)) + DigitValue(d[Len(d)])

\* the value of a run of digits as a fraction, in thousandths
FractionValue(d) ==
    LET digit(k) == IF k <= Len(d) THEN DigitValue(d[k]) ELSE 0
    IN  100 * digit(1) + 10 * digit(2) + digit(3)

\* parseFloat: leading blanks, a sign, digits, a point and digits; what
\* follows is ignored, and without any digit the result is NaN
ParseFloat(str) ==
    LET q == SkipSpaces(str)
        signed == Len(q) > 0 /\ q[1] \in {"-", "+"}
        neg == Len(q) > 0 /\ q[1] = "-"
        body == IF signed THEN Tail(q) ELSE q
        int == LeadingDigits(body)
        rest == SubSeq(body, Len(int) + 1, Len(body))
        frac == IF Len(rest) > 0 /\ rest[1] = "."
                THEN LeadingDigits(Tail(rest)) ELSE << >>
    IN  IF Len(int) = 0 /\ Len(frac) = 0 THEN NaN
        ELSE [nan |-> FALSE, neg |-> neg,
              milli |-> 1000 * IntegerValue(int) + FractionValue(frac)]

\* x <= 0 in floating point: false for NaN
NotPositive(x) == ~x.nan /\ (x.neg \/ x.milli = 0)

\* a guard that does not look at the amount's value
PriceInputInvalidNoValueCheck(fromCurrency, toCurrency, amount) ==
    \/ fromCurrency = ""
    \/ toCurrency = ""
    \/ amount = << >>

\* !fromCurrency || !toCurrency || !amount || parseFloat(amount) <= 0
PriceInputInvalid(fromCurrency, toCurrency, amount) ==
    \/ fromCurrency = ""
    \/ toCurrency = ""
    \/ amount = << >>
    \/ NotPositive(ParseFloat(amount))

\* no request: the edge function is not invoked
NoBody == [fromCurrency |-> "", toCurrency |-> "", amount |-> << >>,
           orderType |-> ""]

\* the request body handed to the edge function bridge-price
PriceRequest(fromCurrency, toCurrency, amount, orderType) ==
    [fromCurrency |-> fromCurrency, toCurrency |-> toCurrency,
     amount |-> amount, orderType |-> orderType]

MockRate(fromCurrency) == IF fromCurrency = "BTC" THEN 65000 ELSE 3000

\* Number.toFixed of a positive number or NaN: the number of units of the
\* last decimal place, rounded
ToFixedProduct(x, rate, places) ==
    IF x.nan THEN [nan |-> TRUE, units |-> 0, places |-> places]
    ELSE [nan |-> FALSE, units |-> (x.milli * rate) \div 10, places |-> places]

ToFixedQuotient(x, rate, places) ==
    IF x.nan THEN [nan |-> TRUE, units |-> 0, places |-> places]
    ELSE [nan |-> FALSE, units |-> (2 * x.milli * 100000 + rate) \div (2 * rate),
          places |-> places]


\* the mock response of the catch block (of its data the amounts, the
\* currencies and the rates; ttl is expiresAt - timestamp)
MockResponse(fromCurrency, toCurrency, amount) ==
    LET mockRate == MockRate(fromCurrency)
        fromAmount == ParseFloat(amount)
        toAmount == IF fromCurrency = "BTC"
                    THEN ToFixedProduct(fromAmount, mockRate, 2)
                    ELSE ToFixedQuotient(fromAmount, mockRate, 8)
    IN  [code |-> 0, msg |-> "Success",
         data |-> [from |-> [amount |-> amount, currency |-> fromCurrency,
                             rate |-> IF fromCurrency = "BTC"
                                      THEN << mockRate, 1 >> ELSE << 1, mockRate >>],
                   to |-> [amount |-> toAmount, currency |-> toCurrency,
                           rate |-> IF fromCurrency = "BTC"
                                    THEN << 1, mockRate >> ELSE << mockRate, 1 >>]],
         ttl |-> 60]

\* what the backend may send as the data of a quote: a quote of the request,
\* or a quote of another request
BackendData(call) ==
    { [from |-> [amount |-> call.amount, currency |-> call.fromCurrency,
                 rate |-> << 64000, 1 >>],
       to |-> [amount |-> [nan |-> FALSE, units |-> 3200000, places |-> 2],
               currency |-> call.toCurrency, rate |-> << 1, 64000 >>]],
      [from |-> [amount |-> << "1" >>, currency |-> "LTC", rate |-> << 90, 1 >>],
       to |-> [amount |-> [nan |-> FALSE, units |-> 9000, places |-> 2],
               currency |-> "USDT", rate |-> << 1, 90 >>]] }

\* how the invocation of the edge function may settle: it rejects; it
\* resolves with an error; without data; with data of a code
BackendAnswers(call) ==
    { [kind |-> k, code |-> 1, msg |-> "", data |-> NoData, ttl |-> 0] :
          k \in {"reject", "error", "nodata"} }
    \cup { [kind |-> "data", code |-> 301, msg |-> "Invalid amount",
            data |-> NoData, ttl |-> 0] }
    \cup { [kind |-> "data", code |-> 0, msg |-> "OK", data |-> d, ttl |-> 30] :
              d \in BackendData(call) }

\* no answer yet
NoAnswer == [kind |-> "none", code |-> 1, msg |-> "", data |-> NoData, ttl |-> 0]

\* every failure rethrown to the caller: no fallback
PriceResultNoFallback(call, ans) ==
    IF ans.kind = "data" /\ ans.code = 0
    THEN [code |-> ans.code, msg |-> ans.msg, data |-> ans.data, ttl |-> ans.ttl]
    ELSE NoQuote

\* what calculatePrice returns (and records) once the invocation settled
PriceResult(call, ans) ==
    IF ans.kind = "data" /\ ans.code = 0
    THEN [code |-> ans.code, msg |-> ans.msg, data |-> ans.data, ttl |-> ans.ttl]
    ELSE MockResponse(call.fromCurrency, call.toCurrency, call.amount)

PriceAmounts ==
    { << >>, << "0" >>, << "-", "0", ".", "5" >>, << "0", ".", "5" >>,
      << "a", "b", "c" >> }

OrderTypes == {"fixed", "float"}

\* calculatePrice(fromCurrency, toCurrency, amount, orderType) up to its
\* first await: null for invalid input, else the edge function is invoked
\* with the request body
CalculatePrice(fromCurrency, toCurrency, amount, orderType) ==
    /\ Len(priceCalls) < MaxPriceCalls
    /\ LET invalid == PriceInputInvalid(fromCurrency, toCurrency, amount)
       IN  priceCalls' = Append(priceCalls,
               [fromCurrency |-> fromCurrency, toCurrency |-> toCurrency,
                amount |-> amount,
                pc |-> IF invalid THEN "done" ELSE "invoke",
                body |-> IF invalid THEN NoBody
                         ELSE PriceRequest(fromCurrency, toCurrency, amount,
                                           orderType),
                answer |-> NoAnswer, ret |-> NoQuote])
    /\ UNCHANGED lastPriceCheck

\* the invocation of call i settles, with the answer ans
PriceAnswered(i, ans) ==
    /\ i \in 1..Len(priceCalls)
    /\ priceCalls[i].pc = "invoke"
    /\ LET r == PriceResult(priceCalls[i], ans)
       IN  /\ priceCalls' = [priceCalls EXCEPT ![i] =
                  [@ EXCEPT !.pc = "done", !.answer = ans, !.ret = r]]
           /\ lastPriceCheck' = r

\* the invocation of call i settles
PriceSettles(i) ==
    /\ i \in 1..Len(priceCalls)
    /\ \E ans \in BackendAnswers(priceCalls[i]) : PriceAnswered(i, ans)
    /\ UNCHANGED << vars, catalogVars, formVars >>

\* the saver idle in its usual initial state
SaverIdle ==
    /\ Init
    /\ store = << >>
    /\ \A s \in Sessions : ~simulateSuccess[s] /\ token[s]

\* a call of calculatePrice by the form
PriceCalled ==
    /\ \E f \in {"", "BTC", "ETH"}, t \in {"", "USDT"}, a \in PriceAmounts,
          ot \in OrderTypes : CalculatePrice(f, t, a, ot)
    /\ UNCHANGED << vars, catalogVars, formVars >>

PriceNext ==
    \/ PriceCalled
    \/ \E i \in 1..MaxPriceCalls : PriceSettles(i)

PriceSpec == SaverIdle /\ [][PriceNext]_allVars

----------------------------------------------------------------------------
(* useBridgeService: fetchCurrencies.  A value of the response is a record of
   its JavaScript type and content, so that 1, "1" and undefined differ *)

Undefined == [t |-> "undefined", v |-> 0]

Num(n) == [t |-> "number", v |-> n]

\* the string "1"
StrOne == [t |-> "string", v |-> 1]

\* x || 0
OrZero(x) ==
    IF x.t = "undefined" \/ (x.t = "number" /\ x.v = 0) THEN Num(0) ELSE x

\* x === 1
IsOne(x) == x = Num(1)

\* the flags send and recv as the response may carry them
RawFlags == { Undefined, Num(0), Num(1), StrOne }

\* an element of the list that is null
NullEntry == [isNull |-> TRUE, code |-> "", send |-> Undefined, recv |-> Undefined]

\* the elements of data.data: currency objects, or null
RawEntries ==
    { [isNull |-> FALSE, code |-> "BTC", send |-> sd, recv |-> rc] :
          sd \in RawFlags, rc \in RawFlags }
    \cup { NullEntry }

RECURSIVE ListsUpTo(_)
\* the lists of at most n elements
ListsUpTo(n) ==
    IF n = 0 THEN { << >> }
    ELSE LET shorter == ListsUpTo(n - 1)
         IN  shorter \cup { Append(l, c) : l \in { x \in shorter : Len(x) = n - 1 },
                                            c \in RawEntries }

\* the entry data.data.map builds of a currency object (of its fields the
\* symbol, the code and the capability flags)
CatalogEntry(currency) ==
    [symbol |-> currency.code, code |-> currency.code,
     available |-> (IsOne(currency.send) \/ IsOne(currency.recv)),
     recv |-> OrZero(currency.recv), send |-> OrZero(currency.send)]

MockEntry(symbol, code) ==
    [symbol |-> symbol, code |-> code, available |-> TRUE,
     recv |-> Num(1), send |-> Num(1)]

MOCK_CURRENCIES ==
    << MockEntry("BTC", "BTC"), MockEntry("ETH", "ETH"),
       MockEntry("USDT", "USDTETH"), MockEntry("USDC", "USDCETH"),
       MockEntry("SOL", "SOL") >>

\* how the invocation of bridge-currencies may settle: it rejects; it resolves
\* with an error; without data; with data of a nonzero code; with code 0 and
\* data.data missing, an object that is no list, or a list
CatalogAnswers ==
    { [kind |-> k, code |-> 1, shape |-> "absent", list |-> << >>] :
          k \in {"reject", "error", "nodata"} }
    \cup { [kind |-> "data", code |-> 401, shape |-> "list", list |-> << >>] }
    \cup { [kind |-> "data", code |-> 0, shape |-> sh, list |-> << >>] :
              sh \in {"absent", "object"} }
    \cup { [kind |-> "data", code |-> 0, shape |-> "list", list |-> l] :
              l \in ListsUpTo(MaxCatalogLen) }

\* the try block reaches its return: no error, data of code 0 whose data.data
\* is a list, and the map throws on none of its elements
CatalogFetched(ans) ==
    /\ ans.kind = "data"
    /\ ans.code = 0
    /\ ans.shape = "list"
    /\ \A k \in 1..Len(ans.list) : ~ans.list[k].isNull

\* a failure rethrown to the caller: no fallback, no notification
FetchResultNoFallback(ans) ==
    IF CatalogFetched(ans)
    THEN [ret |-> [k \in 1..Len(ans.list) |-> CatalogEntry(ans.list[k])],
          toasts |-> 0, threw |-> FALSE]
    ELSE [ret |-> << >>, toasts |-> 0, threw |-> TRUE]

\* what fetchCurrencies returns once the invocation settled, and the
\* notifications it raises
FetchResult(ans) ==
    IF CatalogFetched(ans)
    THEN [ret |-> [k \in 1..Len(ans.list) |-> CatalogEntry(ans.list[k])],
          toasts |-> 0, threw |-> FALSE]
    ELSE [ret |-> MOCK_CURRENCIES, toasts |-> 1, threw |-> FALSE]

\* fetchCurrencies() is called (again once the previous call returned): the
\* edge function is invoked
FetchCurrencies ==
    /\ catalogCall.pc \in {"idle", "done"}
    /\ catalogCall' = [IdleCatalog EXCEPT !.pc = "invoke"]
    /\ UNCHANGED << vars, priceVars, formVars >>

\* the invocation settles with the answer ans
CatalogAnswered(ans) ==
    /\ catalogCall.pc = "invoke"
    /\ LET r == FetchResult(ans)
       IN  catalogCall' = [pc |-> "done", answer |-> ans, ret |-> r.ret,
                           toasts |-> r.toasts, threw |-> r.threw]
    /\ UNCHANGED << vars, priceVars, formVars >>

CatalogSettles == \E ans \in CatalogAnswers : CatalogAnswered(ans)

CatalogNext == FetchCurrencies \/ CatalogSettles

CatalogSpec == SaverIdle /\ [][CatalogNext]_allVars

----------------------------------------------------------------------------
(* BridgeForm: handleBridgeAssets.  A click handler sees the isSubmitting of
   the render it belongs to; an update made inside the click is rendered
   before the next event, one made after the await when the form renders *)

\* a handler without the guard
SubmitBlockedNever(sees) == FALSE

\* if (isSubmitting) return;
SubmitBlocked(sees) == sees

\* a run of handleBridgeAssets past its guard, awaiting createBridgeTransaction
NewSubmission ==
    [pc |-> "await", outcome |-> "none", navigated |-> "", rejected |-> FALSE]

\* how createBridgeTransaction may settle: with a result that carries the
\* order id, with nothing (null), or by throwing
SubmissionOutcomes ==
    { [kind |-> "result", orderId |-> id] : id \in OrderIds }
    \cup { [kind |-> k, orderId |-> ""] : k \in {"nothing", "threw"} }

\* a handler without catch and finally: an error leaves the flag set and
\* rejects the handler's promise
AfterSubmissionNoFinally(o) ==
    [navigated |-> IF o.kind = "result" THEN o.orderId ELSE "",
     submitting |-> (o.kind = "threw"),
     rejected |-> (o.kind = "threw")]

\* the rest of handleBridgeAssets once createBridgeTransaction settled: the
\* order id navigated to ("": none), the flag after the finally block, and
\* whether the error left the handler
AfterSubmission(o) ==
    [navigated |-> IF o.kind = "result" THEN o.orderId ELSE "",
     submitting |-> FALSE,
     rejected |-> FALSE]

\* a click reaches handleBridgeAssets: it returns at the guard, or sets the
\* flag and calls createBridgeTransaction
HandleBridgeAssets ==
    /\ IF SubmitBlocked(handlerSees)
       THEN /\ ignoredClicks' = TRUE
            /\ UNCHANGED << isSubmitting, handlerSees, submissions >>
       ELSE /\ Len(submissions) < MaxSubmissions
            /\ isSubmitting' = TRUE
            /\ handlerSees' = TRUE
            /\ submissions' = Append(submissions, NewSubmission)
            /\ UNCHANGED ignoredClicks
    /\ UNCHANGED << vars, priceVars, catalogVars >>

\* createBridgeTransaction of submission i settles with outcome o
SubmissionSettles(i, o) ==
    /\ i \in 1..Len(submissions)
    /\ submissions[i].pc = "await"
    /\ LET r == AfterSubmission(o)
       IN  /\ submissions' = [submissions EXCEPT ![i] =
                  [pc |-> "done", outcome |-> o.kind, navigated |-> r.navigated,
                   rejected |-> r.rejected]]
           /\ isSubmitting' = r.submitting
    /\ UNCHANGED << handlerSees, ignoredClicks, vars, priceVars, catalogVars >>

\* the form renders: the button gets the handler of the current state
FormRenders ==
    /\ handlerSees # isSubmitting
    /\ handlerSees' = isSubmitting
    /\ UNCHANGED << isSubmitting, submissions, ignoredClicks, vars, priceVars,
                    catalogVars >>

FormSettles ==
    \E i \in 1..MaxSubmissions, o \in SubmissionOutcomes : SubmissionSettles(i, o)

FormNext == HandleBridgeAssets \/ FormSettles \/ FormRenders

FormSpec == SaverIdle /\ [][FormNext]_allVars

\* an awaited createBridgeTransaction settles, and a pending render happens
FormFairness == WF_allVars(FormSettles) /\ WF_allVars(FormRenders)

FormFairSpec == SaverIdle /\ [][FormNext]_allVars /\ FormFairness

----------------------------------------------------------------------------
(* The specifications *)

\* a step of one of the invocations: an answer of the store or a timer
Step ==
    \/ \E i \in 1..MaxProcs : SaveSelectError(i)
    \/ \E i \in 1..MaxProcs : SaveThrows(i)
    \/ \E i \in 1..MaxProcs : SaveSelectOk(i)
    \/ \E i \in 1..MaxProcs, ok \in BOOLEAN : SaveUpdateResolve(i, ok)
    \/ \E i \in 1..MaxProcs : SaveInsertResolve(i)
    \/ \E i \in 1..MaxProcs, msg \in OtherMsgs : SaveInsertError(i, msg)
    \/ \E i \in 1..MaxProcs : SaveInsertThrows(i)
    \/ \E i \in 1..MaxProcs : ExpiredQueryOk(i)
    \/ \E i \in 1..MaxProcs, resolved \in BOOLEAN : ExpiredQueryFails(i, resolved)
    \/ \E i \in 1..MaxProcs : ExpiredTimeout(i)
    \/ \E i \in 1..MaxProcs : ExpiredLoserSettles(i)
    \/ \E i \in 1..MaxProcs : ExpiredApplyUpdate(i)
    \/ \E i \in 1..MaxProcs : ExpiredClearChecking(i)

Next ==
    \/ \E s \in Sessions, o \in Orders \cup {NullOrder} : OrderChange(s, o)
    \/ Step

Spec == Init /\ [][Next]_allVars

\* the store answers the pending call of save invocation i, one way or another
SaveAnswered(i) ==
    \/ SaveSelectOk(i)
    \/ SaveSelectError(i)
    \/ SaveThrows(i)
    \/ \E ok \in BOOLEAN : SaveUpdateResolve(i, ok)
    \/ SaveInsertResolve(i)
    \/ \E msg \in OtherMsgs : SaveInsertError(i, msg)
    \/ SaveInsertThrows(i)

\* a timer of recovery i fires: the 2 s timer of the race or a 200 ms timer
TimerFires(i) ==
    \/ ExpiredTimeout(i)
    \/ ExpiredApplyUpdate(i)
    \/ ExpiredClearChecking(i)

\* a timer that is due fires, and a call of the store is answered or throws;
\* whether a query of the recovery is ever answered is left open
Fairness ==
    /\ WF_vars(\E i \in 1..MaxProcs : TimerFires(i))
    /\ WF_vars(\E i \in 1..MaxProcs : SaveAnswered(i))

\* the session whose status is being polled
PolledSession == 1

\* the steps while the only changes are status polls of that session, which
\* report the order completed with its raw response, or expired
FairNext ==
    \/ \E o \in Orders :
          /\ o.orderId = orderDetails[PolledSession].orderId
          /\ << o.currentStatus, o.rawApiResponse >> \in
                { << "completed", [status |-> "DONE", n |-> 1] >>,
                  << "expired", NoRaw >> }
          /\ OrderChange(PolledSession, o)
    \/ Step

FairSpec == Init /\ [][FairNext]_allVars /\ Fairness

----------------------------------------------------------------------------
(* The last-checked-id marker.  The component reads the marker it is handed
   as a prop and never writes it; here its owner records the order id for
   which a recovery check is triggered. *)

MaxMarkerChanges == 3
MaxMarkerProcs == 3

\* the marker after the expired-check effect ran for the order od
MarkChecked(ref, od) ==
    IF ShouldCheckExpiredStatus(od, ref) THEN od.orderId ELSE ref

\* the re-render of session s with the order o, the marker kept by the owner
RenderOrderMarked(s, o, P, c) ==
    LET new == P \o SaveSpawn(s, o, simulateSuccess[s], transactionSaved[s])
                 \o ExpiredSpawn(s, o, token[s], hasCheckedExpiredOrderRef[s])
    IN  /\ Len(new) <= MaxMarkerProcs
        /\ procs' = new
        /\ orderDetails' = [orderDetails EXCEPT ![s] = o]
        /\ lastSaveEffect' = [lastSaveEffect EXCEPT ![s] =
               SaveEffectBranch(o, simulateSuccess[s], transactionSaved[s])]
        /\ checkingDb' = [checkingDb EXCEPT ![s] =
               CheckingAfterExpiredEffect(c, o, token[s],
                                          hasCheckedExpiredOrderRef[s])]
        /\ hasCheckedExpiredOrderRef' = [hasCheckedExpiredOrderRef EXCEPT ![s] =
               MarkChecked(@, o)]

\* the orders handed over while an order stays expired: the poll reports it
\* expired (again), or the user moves to another order
MarkerOrders(od) ==
    { [od EXCEPT !.currentStatus = "expired"] }
    \cup { [od EXCEPT !.orderId = id] : id \in OrderIds }

OrderChangeMarked(s, o) ==
    /\ changes < MaxMarkerChanges
    /\ o \in MarkerOrders(orderDetails[s])
    /\ changes' = changes + 1
    /\ RenderOrderMarked(s, o, procs,
                         IF o.currentStatus = "expired" THEN TRUE ELSE checkingDb[s])
    /\ UNCHANGED << store, simulateSuccess, token, transactionSaved,
                    priceVars, catalogVars, formVars >>

ExpiredApplyUpdateMarked(i) ==
    /\ IsAt(i, "expired", "delayUpdate")
    /\ RenderOrderMarked(procs[i].s, procs[i].upd,
                         [procs EXCEPT ![i] = [@ EXCEPT !.pc = "done"]], FALSE)
    /\ UNCHANGED << store, simulateSuccess, token, transactionSaved, changes,
                    priceVars, catalogVars, formVars >>

\* the table holds no raw response: a recovered order is not saved again
MarkerInit == Init /\ \A k \in 1..Len(store) : store[k].raw_api_response = NoRaw

MarkerNext ==
    \/ \E o \in Orders : OrderChangeMarked(PolledSession, o)
    \/ \E i \in 1..MaxMarkerProcs : ExpiredQueryOk(i)
    \/ \E i \in 1..MaxMarkerProcs, resolved \in BOOLEAN : ExpiredQueryFails(i, resolved)
    \/ \E i \in 1..MaxMarkerProcs : ExpiredTimeout(i)
    \/ \E i \in 1..MaxMarkerProcs : ExpiredLoserSettles(i)
    \/ \E i \in 1..MaxMarkerProcs : ExpiredApplyUpdateMarked(i)
    \/ \E i \in 1..MaxMarkerProcs : ExpiredClearChecking(i)

MarkerSpec == MarkerInit /\ [][MarkerNext]_allVars

----------------------------------------------------------------------------
(* Properties *)

SaveProcs == { i \in 1..Len(procs) : procs[i].kind = "save" }
ExpiredProcs == { i \in 1..Len(procs) : procs[i].kind = "expired" }
AllIds == OrderIds \cup {NoId}

\* C1: whatever the interleaving of the saves of all sessions, the table
\* never holds more than one record with the same ff_order_id.
C1_AtMostOneRecordPerOrderId ==
    \A id \in AllIds : Cardinality(RowsFor(store, id)) <= 1

\* Two sessions raced to insert the same order id: one insert was accepted,
\* the other rejected as a uniqueness violation.
C1_Witness ==
    \E i \in SaveProcs, j \in SaveProcs :
        /\ procs[i].s # procs[j].s
        /\ procs[i].od.orderId = procs[j].od.orderId
        /\ procs[i].resps = << "empty", "ok" >>
        /\ procs[j].resps = << "empty", "unique" >>

\* C2: every save invocation that reached the store (and so every insert and
\* update issued) was started for an order that is completed and carries a
\* raw response.
C2_NoWriteUnlessCompletedWithRaw ==
    \A i \in SaveProcs :
        /\ procs[i].od.currentStatus = "completed"
        /\ Truthy(procs[i].od.rawApiResponse)

\* The save effect has run for orders that are not completed or lack the raw
\* response (it skipped), while another order was written to the table.
C2_Witness ==
    /\ \E s \in Sessions :
          /\ lastSaveEffect[s] = "skip-raw"
          /\ orderDetails[s].currentStatus = "completed"
          /\ \A i \in SaveProcs : procs[i].s # s
    /\ \E i \in SaveProcs : Last(procs[i].resps) = "ok"

\* C3 as stated: once a save of the session's order has completed, a further
\* invocation of the save effect for that order (still completed, with its
\* raw response) goes to the store again, to update the record.
C3_SecondCallUpdates ==
    \A s \in Sessions :
        ( /\ \E i \in SaveProcs :
                /\ procs[i].s = s
                /\ procs[i].pc = "done"
                /\ procs[i].saved
                /\ procs[i].od.orderId = orderDetails[s].orderId
          /\ SaveEffectBranch(orderDetails[s], simulateSuccess[s], FALSE) = "save" )
        => lastSaveEffect[s] = "save"

\* C3 amended: once a record of an order id exists, no step adds another
\* one; a save whose select answers then goes on to update, never to insert;
\* and an invocation of the save effect in a session whose saved flag is set
\* starts no save at all.
C3_SecondCallNeverInserts ==
    [][ /\ \A i \in SaveProcs :
              RowsFor(store, procs[i].od.orderId) # {} =>
                /\ Cardinality(RowsFor(store', procs[i].od.orderId))
                      = Cardinality(RowsFor(store, procs[i].od.orderId))
                /\ ( procs[i].pc = "select" /\ procs'[i].pc \notin {"select", "done"} )
                      => ( procs'[i].pc = "update"
                           /\ procs'[i].ops = << "select", "update" >> )
        /\ \A s \in Sessions :
              transactionSaved[s] =>
                \A j \in (Len(procs) + 1)..Len(procs') :
                    ~(procs'[j].kind = "save" /\ procs'[j].s = s)
      ]_vars

\* A first save inserted the record; a second save for the same order id
\* found it and updated it; and a session whose flag is set has skipped.
C3_Witness ==
    /\ \E i \in SaveProcs, j \in SaveProcs :
          /\ procs[i].od.orderId = procs[j].od.orderId
          /\ procs[i].resps = << "empty", "ok" >>
          /\ procs[j].resps = << "rows", "ok" >>
    /\ \E s \in Sessions :
          /\ transactionSaved[s]
          /\ lastSaveEffect[s] = "skip-saved"

\* C4: a save whose insert was answered with a uniqueness violation has set
\* the saved flag and raised no notification.
C4_UniquenessViolationCountsAsSaved ==
    \A i \in SaveProcs :
        Last(procs[i].resps) = "unique" =>
            /\ procs[i].pc = "done"
            /\ procs[i].saved
            /\ transactionSaved[procs[i].s]
            /\ procs[i].toast = NoToast

\* A save found no record, and its insert was rejected as a duplicate.
C4_Witness ==
    \E i \in SaveProcs :
        /\ procs[i].ops = << "select", "insert" >>
        /\ procs[i].resps = << "empty", "unique" >>

\* C5: when the select found no record and the insert succeeds, the step adds
\* exactly one row, the only one of that ff_order_id, with status completed
\* and the order's raw response, and the saved flag is set; the order was
\* completed, with a raw response, the session not in simulate mode.
C5_InsertOfNewRecord ==
    [][ \A i \in SaveProcs :
          ( procs[i].pc = "insert" /\ procs'[i].pc = "done"
            /\ Last(procs'[i].resps) = "ok" ) =>
              /\ RowsFor(store, procs[i].od.orderId) = {}
              /\ Len(store') = Len(store) + 1
              /\ \A k \in 1..Len(store) : store'[k] = store[k]
              /\ store'[Len(store')].ff_order_id = procs[i].od.orderId
              /\ store'[Len(store')].status = "completed"
              /\ store'[Len(store')].raw_api_response = procs[i].od.rawApiResponse
              /\ Truthy(procs[i].od.rawApiResponse)
              /\ procs[i].od.currentStatus = "completed"
              /\ ~simulateSuccess[procs[i].s]
              /\ transactionSaved'[procs[i].s]
      ]_vars

\* A save has inserted the record of its order and the session is saved.
C5_Witness ==
    \E i \in SaveProcs :
        /\ procs[i].resps = << "empty", "ok" >>
        /\ transactionSaved[procs[i].s]
        /\ \E k \in 1..Len(store) :
              /\ store[k].ff_order_id = procs[i].od.orderId
              /\ store[k].raw_api_response = procs[i].od.rawApiResponse

\* C6: a save whose select found a record of the order id issues no insert
\* but one update.  When the store carries the update out (it answers without
\* error), every record of the order id has status completed and the raw
\* response of the order the save was started for, whatever it held before,
\* nothing else in the table has changed, and the session is marked saved.
\* (When the store answers the update with an error the table is unchanged
\* and the session is marked saved all the same; when the call throws, the
\* table and the saved flag are unchanged.)
C6_ExistingRecordUpdated ==
    [][ \A i \in SaveProcs :
          /\ ( procs[i].pc = "select" /\ Last(procs'[i].resps) = "rows" ) =>
                /\ procs'[i].pc = "update"
                /\ procs'[i].ops = << "select", "update" >>
          /\ ( procs[i].pc = "update" /\ procs'[i].pc = "done" ) =>
                /\ procs'[i].ops = << "select", "update" >>
                /\ Last(procs'[i].resps) = "ok" =>
                      /\ Len(store') = Len(store)
                      /\ \A k \in 1..Len(store) :
                            IF store[k].ff_order_id = procs[i].od.orderId
                            THEN /\ store'[k].ff_order_id = store[k].ff_order_id
                                 /\ store'[k].status = "completed"
                                 /\ store'[k].raw_api_response
                                       = procs[i].od.rawApiResponse
                            ELSE store'[k] = store[k]
                      /\ transactionSaved'[procs[i].s]
                /\ Last(procs'[i].resps) = "error" =>
                      /\ store' = store
                      /\ transactionSaved'[procs[i].s]
                /\ Last(procs'[i].resps) = "throw" =>
                      /\ store' = store
                      /\ transactionSaved' = transactionSaved
      ]_vars

\* A save found the record of its order and its update went through: the
\* record carries the order's raw response and the session is saved.
C6_Witness ==
    \E i \in SaveProcs :
        /\ procs[i].ops = << "select", "update" >>
        /\ procs[i].resps = << "rows", "ok" >>
        /\ transactionSaved[procs[i].s]
        /\ \E k \in RowsFor(store, procs[i].od.orderId) :
              /\ store[k].status = "completed"
              /\ store[k].raw_api_response = procs[i].od.rawApiResponse
              /\ procs[i].od.rawApiResponse # [status |-> "DONE", n |-> 1]

\* C7 as stated: a save invocation whose last store call answered with an
\* error, or threw, has not set the saved flag.
C7_FailedSaveNeverMarksSaved ==
    \A i \in SaveProcs :
        ( procs[i].pc = "done" /\ Last(procs[i].resps) \in {"error", "throw"} )
            => ~procs[i].saved

\* C7 amended: a save invocation that ended on a select error, an insert
\* error other than a uniqueness violation or an exception has not set the
\* saved flag; one that ended on an error of the update of an existing record
\* has set it.
C7_FailedSaveMarksSavedOnlyOnUpdateError ==
    \A i \in SaveProcs :
        ( procs[i].pc = "done" /\ Last(procs[i].resps) \in {"error", "throw"} )
            => ( procs[i].saved <=>
                    ( Last(procs[i].ops) = "update"
                      /\ Last(procs[i].resps) = "error" ) )

\* An insert failed with an error that is no uniqueness violation, and the
\* session is not saved.
C7_Witness ==
    \E i \in SaveProcs :
        /\ procs[i].resps = << "empty", "error" >>
        /\ ~procs[i].saved
        /\ ~transactionSaved[procs[i].s]

ErrorAnswers == {"error", "throw", "timeout"}

\* C8 as stated: every invocation of the save or of the recovery that met an
\* error (query error, write error other than a uniqueness violation,
\* timeout, exception) has ended and raised an error notification.
C8_EveryErrorNotified ==
    \A i \in 1..Len(procs) :
        Last(procs[i].resps) \in ErrorAnswers =>
            /\ procs[i].pc = "done"
            /\ procs[i].toast # NoToast

\* C8 amended: every such invocation has ended, and has raised an error
\* notification unless the error was that of the update of an existing
\* record, which is logged only.
C8_EveryErrorNotifiedButUpdateError ==
    \A i \in 1..Len(procs) :
        Last(procs[i].resps) \in ErrorAnswers =>
            /\ procs[i].pc = "done"
            /\ ( procs[i].toast = NoToast <=>
                    ( procs[i].kind = "save"
                      /\ Last(procs[i].ops) = "update"
                      /\ Last(procs[i].resps) = "error" ) )

\* A recovery timed out and a save threw: both raised their notification.
C8_Witness ==
    /\ \E i \in ExpiredProcs :
          /\ procs[i].resps = << "timeout" >>
          /\ procs[i].toast = "Error: Failed to check transaction status"
    /\ \E i \in SaveProcs :
          /\ Last(procs[i].resps) = "throw"
          /\ procs[i].toast # NoToast

\* C9: a save whose select answered with an error has ended there: it raised
\* the database error notification, issued the one select and nothing else,
\* and did not mark the session saved.
C9_SelectErrorAborts ==
    \A i \in SaveProcs :
        ( Len(procs[i].resps) > 0 /\ procs[i].resps[1] = "error" ) =>
            /\ procs[i].pc = "done"
            /\ procs[i].ops = << "select" >>
            /\ procs[i].resps = << "error" >>
            /\ procs[i].toast =
                  "Database Error: Failed to check for existing transaction"
            /\ ~procs[i].saved

\* A save met a select error, and the table holds no record of its order.
C9_Witness ==
    \E i \in SaveProcs :
        /\ procs[i].resps = << "error" >>
        /\ RowsFor(store, procs[i].od.orderId) = {}

\* C10: the recovery takes the found path exactly when the table holds a
\* record of the order id; it then returns true and prepares the captured
\* order with currentStatus completed and the record's raw response (the
\* order's own when the record has none), every other field as captured; and
\* the delayed step hands exactly that order to the parent.
C10_RecoveryUpdatesOrder ==
    [][ \A i \in ExpiredProcs :
          /\ ( procs[i].pc = "race"
               /\ procs'[i].pc \in {"delayUpdate", "delayClear"} ) =>
                ( procs'[i].pc = "delayUpdate"
                     <=> RowsFor(store, procs[i].od.orderId) # {} )
          /\ ( procs[i].pc = "race" /\ procs'[i].pc = "delayUpdate" ) =>
                /\ procs'[i].ret = "true"
                /\ \E k \in RowsFor(store, procs[i].od.orderId) :
                      procs'[i].upd =
                        [present |-> procs[i].od.present,
                         orderId |-> procs[i].od.orderId,
                         currentStatus |-> "completed",
                         rawApiResponse |->
                            IF store[k].raw_api_response # NoRaw
                            THEN store[k].raw_api_response
                            ELSE procs[i].od.rawApiResponse]
          /\ ( procs[i].pc = "delayUpdate" /\ procs'[i].pc = "done" ) =>
                /\ orderDetails'[procs[i].s] = procs[i].upd
                /\ procs'[i].ret = "true"
      ]_vars

\* A recovery of an expired order without raw response found the record and
\* the order is now completed with the record's raw response.
C10_Witness ==
    \E i \in ExpiredProcs :
        /\ procs[i].pc = "done"
        /\ procs[i].ret = "true"
        /\ procs[i].od.currentStatus = "expired"
        /\ procs[i].od.rawApiResponse = NoRaw
        /\ orderDetails[procs[i].s] = procs[i].upd
        /\ orderDetails[procs[i].s].currentStatus = "completed"
        /\ Truthy(orderDetails[procs[i].s].rawApiResponse)

\* C11: a recovery whose query answered without error and without a record
\* returns false, prepares no order update and raises no notification; no
\* step of it changes the order of its session, so the status stays as it
\* was; the checking flag is left alone when the answer arrives and cleared
\* by the delayed step.
C11_NotFoundLeavesOrder ==
    [][ \A i \in ExpiredProcs :
          /\ ( procs[i].pc = "race" /\ procs'[i].pc # "race"
               /\ RowsFor(store, procs[i].od.orderId) = {}
               /\ Last(procs'[i].resps) \notin ErrorAnswers ) =>
                /\ procs'[i].pc = "delayClear"
                /\ procs'[i].resps = << "empty" >>
                /\ procs'[i].ret = "false"
                /\ procs'[i].upd = NullOrder
                /\ procs'[i].toast = NoToast
                /\ orderDetails' = orderDetails
                /\ checkingDb' = checkingDb
          /\ ( procs[i].pc = "delayClear" /\ procs'[i].pc # "delayClear" ) =>
                /\ procs'[i].pc = "done"
                /\ procs'[i].ret = "false"
                /\ procs'[i].upd = NullOrder
                /\ procs'[i].toast = NoToast
                /\ orderDetails' = orderDetails
                /\ checkingDb' = [checkingDb EXCEPT ![procs[i].s] = FALSE]
          /\ ( procs[i].resps = << "empty" >> /\ procs'[i] # procs[i] ) =>
                orderDetails' = orderDetails
          /\ ( procs[i].resps = << "empty" >> /\ procs[i].pc = "done" ) =>
                /\ procs'[i].pc = "done"
                /\ procs'[i].ret = "false"
                /\ procs'[i].upd = NullOrder
      ]_vars

\* A recovery of an expired order found no record: it has ended, the order
\* still shows expired and the checking flag, raised before, is cleared.
C11_Witness ==
    \E i \in ExpiredProcs :
        /\ procs[i].pc = "done"
        /\ procs[i].resps = << "empty" >>
        /\ procs[i].ret = "false"
        /\ procs[i].od.currentStatus = "expired"
        /\ orderDetails[procs[i].s] = procs[i].od
        /\ ~checkingDb[procs[i].s]

\* C12: while a recovery waits for its query the 2 s timer is armed, so the
\* timeout step can always be taken; when the timer fires with the query
\* still unanswered the recovery ends at once: it records the timeout, raises
\* the error notification, returns false, prepares no order update, leaves
\* the order alone and clears the checking flag; and it stays ended.
C12_TimeoutTerminates ==
    /\ [](\A i \in ExpiredProcs :
            procs[i].pc = "race" => ( procs[i].tp /\ ENABLED ExpiredTimeout(i) ))
    /\ [][ \A i \in ExpiredProcs :
            /\ ( procs[i].pc = "race" /\ procs'[i].pc # "race"
                 /\ procs[i].qp /\ procs'[i].qp ) =>
                  /\ procs'[i].pc = "done"
                  /\ procs'[i].resps = << "timeout" >>
                  /\ procs'[i].toast = "Error: Failed to check transaction status"
                  /\ procs'[i].ret = "false"
                  /\ procs'[i].upd = NullOrder
                  /\ orderDetails' = orderDetails
                  /\ checkingDb' = [checkingDb EXCEPT ![procs[i].s] = FALSE]
            /\ procs[i].resps = << "timeout" >> =>
                  /\ procs'[i].pc = "done"
                  /\ procs'[i].resps = << "timeout" >>
                  /\ procs'[i].ret = "false"
        ]_vars

\* A recovery of an expired order timed out while the checking flag was
\* raised: it has ended with the error notification, the flag is cleared and
\* the order still shows expired; its query has not answered yet.
C12_Witness ==
    \E i \in ExpiredProcs :
        /\ procs[i].pc = "done"
        /\ procs[i].resps = << "timeout" >>
        /\ procs[i].qp
        /\ procs[i].toast = "Error: Failed to check transaction status"
        /\ procs[i].od.currentStatus = "expired"
        /\ orderDetails[procs[i].s] = procs[i].od
        /\ ~checkingDb[procs[i].s]

\* the outcome of an invocation: what it was answered, notified, returned and
\* prepared
Outcome(p) == << p.resps, p.toast, p.ret, p.upd >>

\* C13: the first of query and timer to settle ends the race and fixes the
\* outcome; when the other one settles afterwards (the query after a timeout,
\* the timer after the query's answer) nothing changes but that it is no
\* longer pending: not the outcome, the order, the checking flag, a
\* notification, the table or the saved flag.
C13_LoserDiscarded ==
    [][ \A i \in ExpiredProcs :
          /\ ( procs[i].pc = "race" /\ procs'[i].pc # "race" ) =>
                ( procs[i].qp /\ procs[i].tp
                  /\ ( procs'[i].qp # procs'[i].tp )
                  /\ ( procs'[i].qp <=> Last(procs'[i].resps) = "timeout" ) )
          /\ procs[i].pc # "race" => Outcome(procs'[i]) = Outcome(procs[i])
          /\ ( procs[i].pc # "race"
               /\ ( procs[i].qp # procs'[i].qp \/ procs[i].tp # procs'[i].tp ) ) =>
                /\ procs'[i] = [procs[i] EXCEPT !.qp = FALSE, !.tp = FALSE]
                /\ \A j \in 1..Len(procs) : j # i => procs'[j] = procs[j]
                /\ Len(procs') = Len(procs)
                /\ UNCHANGED << store, orderDetails, transactionSaved,
                                checkingDb, lastSaveEffect >>
      ]_vars

\* The query of a timed-out recovery answered late, with a record of the
\* order in the table: the order still shows expired and nothing was updated;
\* and the timer of a recovery that found the record fired late.
C13_Witness ==
    /\ \E i \in ExpiredProcs :
          /\ procs[i].resps = << "timeout" >>
          /\ ~procs[i].qp
          /\ RowsFor(store, procs[i].od.orderId) # {}
          /\ orderDetails[procs[i].s] = procs[i].od
          /\ procs[i].upd = NullOrder
    /\ \E i \in ExpiredProcs :
          /\ procs[i].resps = << "rows" >>
          /\ ~procs[i].tp
          /\ procs[i].toast = NoToast

\* the invocations a step starts
Started == { i \in 1..Len(procs') : i > Len(procs) }

\* C16: a recovery that starts for an order without id, or in a session
\* without token, ends in the step that starts it: it issues no query, raises
\* no notification, prepares no order update, returns false, and the checking
\* flag of its session is cleared; no later step changes any of this.
C16_GuardFailureAborts ==
    [][ /\ \A i \in Started :
             ( procs'[i].kind = "expired"
               /\ ( procs'[i].od.orderId = NoId \/ ~token[procs'[i].s] ) ) =>
                  /\ procs'[i].pc = "done"
                  /\ procs'[i].ops = << >>
                  /\ procs'[i].resps = << >>
                  /\ procs'[i].toast = NoToast
                  /\ procs'[i].ret = "false"
                  /\ procs'[i].upd = NullOrder
                  /\ ~procs'[i].qp /\ ~procs'[i].tp
                  /\ ~checkingDb'[procs'[i].s]
                  /\ store' = store
        /\ \A i \in ExpiredProcs :
             ( procs[i].od.orderId = NoId \/ ~token[procs[i].s] ) =>
                  procs'[i] = procs[i]
      ]_vars

\* In a session without token two recoveries were started and aborted, one
\* for an expired order with an id and one for the same order without id; the
\* checking flag, raised by the parent, is cleared.
C16_Witness ==
    \E i \in ExpiredProcs, j \in ExpiredProcs :
        /\ procs[i].s = procs[j].s
        /\ ~token[procs[i].s]
        /\ procs[i].od.orderId # NoId
        /\ procs[i].od.currentStatus = "expired"
        /\ procs[j].od.orderId = NoId
        /\ procs[j].od.currentStatus = "expired"
        /\ procs[i].ret = "false" /\ procs[j].ret = "false"
        /\ procs[i].ops = << >> /\ procs[j].ops = << >>
        /\ ~checkingDb[procs[i].s]

\* C17: a run of the save effect starts saveTransaction only when every
\* precondition holds (not simulating, saved flag false, order and id there,
\* status completed, raw response there); otherwise it does nothing: the
\* table, the saved flag and the notifications change only in steps of an
\* invocation already running, and a newly started one has issued its select
\* and nothing else.  So with the saved flag true no invocation is started.
C17_SaveNoOpUnlessPreconditions ==
    [][ /\ \A i \in Started : procs'[i].kind = "save" =>
              /\ ~simulateSuccess[procs'[i].s]
              /\ ~transactionSaved[procs'[i].s]
              /\ procs'[i].od = orderDetails'[procs'[i].s]
              /\ procs'[i].od.present
              /\ procs'[i].od.orderId # NoId
              /\ procs'[i].od.currentStatus = "completed"
              /\ procs'[i].od.rawApiResponse # NoRaw
        /\ \A i \in Started :
              /\ procs'[i].toast = NoToast
              /\ ~procs'[i].saved
              /\ procs'[i].kind = "save" => procs'[i].ops = << "select" >>
        /\ store' # store =>
              \E i \in SaveProcs : /\ procs[i].pc \in {"insert", "update"}
                                   /\ procs'[i].pc = "done"
        /\ \A s \in Sessions : transactionSaved'[s] # transactionSaved[s] =>
              \E i \in SaveProcs : /\ procs[i].s = s
                                   /\ procs[i].pc # "done"
                                   /\ procs'[i].saved
      ]_vars

\* the save invocations of session s for the order od
SavesOf(s, od) == { i \in SaveProcs : procs[i].s = s /\ procs[i].od = od }

\* In a saved session the save effect ran for a completed order with raw
\* response and an id the table has no record of, and returned at the saved
\* guard: no invocation exists for that order.
C17_Witness ==
    \E s \in Sessions :
        /\ transactionSaved[s]
        /\ lastSaveEffect[s] = "skip-saved"
        /\ orderDetails[s].currentStatus = "completed"
        /\ orderDetails[s].rawApiResponse # NoRaw
        /\ orderDetails[s].orderId # NoId
        /\ SavesOf(s, orderDetails[s]) = {}
        /\ RowsFor(store, orderDetails[s].orderId) = {}

\* the delayed update of recovery i cannot be followed any further: the
\* invocations its re-render would start exceed MaxProcs
PoolExhausted(i) ==
    /\ procs[i].pc = "delayUpdate"
    /\ ~ENABLED ExpiredApplyUpdate(i)

\* C14: every recovery that was started ends (as far as the model follows
\* invocations), and the step that ends it, or that starts it when the guard
\* fails, leaves the checking flag of its session cleared; the steps of a
\* recovery that ends without having found the record leave the order as it
\* is.
C14_CheckingEventuallyCleared ==
    /\ \A i \in 1..MaxProcs :
          ( i \in ExpiredProcs ) ~>
              ( i \in ExpiredProcs
                /\ ( procs[i].pc = "done" \/ PoolExhausted(i) ) )
    /\ [][ /\ \A i \in ExpiredProcs :
                ( procs[i].pc # "done" /\ procs'[i].pc = "done" ) =>
                    /\ ~checkingDb'[procs[i].s]
                    /\ procs'[i].ret = "false" => orderDetails' = orderDetails
           /\ \A i \in Started :
                ( procs'[i].kind = "expired" /\ procs'[i].pc = "done" ) =>
                    /\ ~checkingDb'[procs'[i].s]
                    /\ procs'[i].ret = "false"
                    /\ orderDetails'[procs'[i].s] = procs'[i].od
           /\ \A i \in ExpiredProcs :
                ( procs'[i] # procs[i] /\ procs'[i].ret = "false" ) =>
                    orderDetails' = orderDetails
       ]_vars

\* Recoveries have ended on a failure path and on the found path, each with
\* the checking flag cleared: one timed out or met a query error and its
\* order still shows expired, another found the record.
C14_Witness ==
    \E i \in ExpiredProcs, j \in ExpiredProcs :
        /\ procs[i].pc = "done" /\ procs[j].pc = "done"
        /\ Last(procs[i].resps) \in ErrorAnswers
        /\ procs[i].od.currentStatus = "expired"
        /\ procs[j].ret = "true"
        /\ ~checkingDb[procs[i].s]
        /\ ~checkingDb[procs[j].s]

\* the order qualifies for the save
Qualifies(od) ==
    /\ od.present
    /\ od.orderId # NoId
    /\ od.currentStatus = "completed"
    /\ od.rawApiResponse # NoRaw

\* the answers of a save that met no error
AnsweredWithoutError == { << "rows", "ok" >>, << "empty", "ok" >> }

\* C18: whenever a session that is not saved (and not simulating) is handed
\* an order object that qualifies, a new save is started for it, whatever
\* became of the saves before; every save that was started ends; and a save
\* the store answered without error has left a record of its order and the
\* saved flag true.
C18_FailedSaveRetried ==
    /\ [][ \A s \in Sessions :
              ( /\ \/ changes' # changes /\ s = PolledSession
                   \/ orderDetails'[s] # orderDetails[s]
                /\ Qualifies(orderDetails'[s])
                /\ ~transactionSaved[s]
                /\ ~simulateSuccess[s] ) =>
                  \E i \in Started :
                      /\ procs'[i].kind = "save"
                      /\ procs'[i].s = s
                      /\ procs'[i].od = orderDetails'[s]
                      /\ procs'[i].ops = << "select" >>
       ]_vars
    /\ \A i \in 1..MaxProcs :
          ( i \in SaveProcs ) ~> ( i \in SaveProcs /\ procs[i].pc = "done" )
    /\ [](\A i \in SaveProcs :
            ( procs[i].pc = "done" /\ procs[i].resps \in AnsweredWithoutError ) =>
                /\ procs[i].saved
                /\ transactionSaved[procs[i].s]
                /\ RowsFor(store, procs[i].od.orderId) # {})

\* A save failed and left the session unsaved; the next poll handed over the
\* completed order again, the save started for it was answered without
\* error, and now the order is recorded and the session saved.
C18_Witness ==
    \E i \in SaveProcs, j \in SaveProcs :
        /\ i < j
        /\ procs[i].s = procs[j].s
        /\ procs[i].od = procs[j].od
        /\ procs[i].pc = "done"
        /\ ~procs[i].saved
        /\ Last(procs[i].resps) \in ErrorAnswers
        /\ procs[j].resps = << "empty", "ok" >>
        /\ transactionSaved[procs[j].s]
        /\ RowsFor(store, procs[j].od.orderId) # {}

\* the recovery checks session s has entered: the invocations of
\* handleExpiredStatus
ChecksOf(s) == { i \in ExpiredProcs : procs[i].s = s }

----------------------------------------------------------------------------
(* The price quotation *)

\* the amounts of PriceAmounts that are numbers not above zero
NonPositiveAmounts == { << "0" >>, << "-", "0", ".", "5" >> }

\* the call has invalid input: a currency or the amount is missing, or the
\* amount is not positive
InvalidInput(c) ==
    \/ c.fromCurrency = ""
    \/ c.toCurrency = ""
    \/ c.amount = << >>
    \/ c.amount \in NonPositiveAmounts

\* C19: a call of the price quotation with invalid input (a missing
\* from-currency, a missing to-currency, a missing amount, or an amount <= 0)
\* returns null at once, sends no request to the backend then or later, and
\* leaves lastPriceCheck as it was.
C19_InvalidInputReturnsNull ==
    /\ [](\A i \in 1..Len(priceCalls) :
            InvalidInput(priceCalls[i]) =>
                /\ priceCalls[i].pc = "done"
                /\ priceCalls[i].ret = NoQuote
                /\ priceCalls[i].body = NoBody
                /\ priceCalls[i].answer = NoAnswer)
    /\ [][ (/\ Len(priceCalls') = Len(priceCalls) + 1
            /\ InvalidInput(priceCalls'[Len(priceCalls')]))
           => lastPriceCheck' = lastPriceCheck ]_allVars

\* a quote is on record, and a later call with both currencies and an amount
\* that is not positive has returned null without touching it
C19_Witness ==
    \E j \in 1..Len(priceCalls) : \E i \in 1..Len(priceCalls) :
        /\ j < i
        /\ priceCalls[j].pc = "done"
        /\ priceCalls[j].ret # NoQuote
        /\ lastPriceCheck = priceCalls[j].ret
        /\ priceCalls[i].fromCurrency # ""
        /\ priceCalls[i].toCurrency # ""
        /\ priceCalls[i].amount \in NonPositiveAmounts
        /\ priceCalls[i].pc = "done"
        /\ priceCalls[i].ret = NoQuote
        /\ priceCalls[i].body = NoBody

\* the quote echoes the request of call c
EchoesRequest(q, c) ==
    /\ q.data.from.currency = c.fromCurrency
    /\ q.data.to.currency = c.toCurrency
    /\ q.data.from.amount = c.amount

\* the backend failed: the invocation rejected, resolved with an error or
\* without data, or with a response whose code is not 0
BackendFailed(ans) == ans.kind # "data" \/ ans.code # 0

\* C20 as stated: for valid input the price quotation always returns a quote
\* with code 0 whose from/to currencies and from amount echo the request.
C20_AlwaysEchoesRequest ==
    \A i \in 1..Len(priceCalls) :
        (priceCalls[i].pc = "done" /\ priceCalls[i].body # NoBody) =>
            /\ priceCalls[i].ret.code = 0
            /\ EchoesRequest(priceCalls[i].ret, priceCalls[i])

\* C20, amended: for valid input the price quotation never fails and returns
\* a quote with code 0, which it records as lastPriceCheck; on a backend
\* failure the quote is the synthetic one, which echoes the request and takes
\* its rate from the fixed table; on a response with code 0 the quote carries
\* the data of the response as received.
C20_QuoteOrFallback ==
    [][ \A i \in 1..Len(priceCalls) :
          (priceCalls[i].pc = "invoke" /\ priceCalls'[i].pc = "done") =>
              LET c == priceCalls'[i]
                  q == c.ret
              IN  /\ q.code = 0
                  /\ lastPriceCheck' = q
                  /\ BackendFailed(c.answer) =>
                        /\ EchoesRequest(q, c)
                        /\ q.msg = "Success"
                        /\ q.data.from.rate = IF c.fromCurrency = "BTC"
                                              THEN << 65000, 1 >>
                                              ELSE << 1, 3000 >>
                  /\ ~BackendFailed(c.answer) =>
                        /\ q.data = c.answer.data
                        /\ q.msg = c.answer.msg ]_allVars

\* one call was answered by a failure and returned the synthetic quote of its
\* request; another was answered with code 0 and returned, and recorded, the
\* data of the response
C20_Witness ==
    \E i \in 1..Len(priceCalls) : \E j \in 1..Len(priceCalls) :
        /\ priceCalls[i].pc = "done"
        /\ priceCalls[i].body # NoBody
        /\ BackendFailed(priceCalls[i].answer)
        /\ priceCalls[i].answer.kind # "none"
        /\ priceCalls[i].ret.code = 0
        /\ EchoesRequest(priceCalls[i].ret, priceCalls[i])
        /\ priceCalls[j].pc = "done"
        /\ priceCalls[j].answer.kind = "data"
        /\ priceCalls[j].answer.code = 0
        /\ priceCalls[j].ret.data = priceCalls[j].answer.data
        /\ lastPriceCheck = priceCalls[j].ret

----------------------------------------------------------------------------
(* The currency catalog *)

\* the failures of the backend: the invocation rejected or resolved with an
\* error, no data, a nonzero code, or data that is not a list
CatalogFailure(ans) ==
    ans.kind # "data" \/ ans.code # 0 \/ ans.shape # "list"

\* C21: the currency catalog fetch never fails: on any failure (invocation
\* error, no data, nonzero code, data that is not a list) it returns the fixed
\* fallback catalog and raises one error notification; and every entry it
\* returns, fetched or fallback, has available = (send = 1 or recv = 1).
C21_CatalogNeverFails ==
    catalogCall.pc = "done" =>
        /\ ~catalogCall.threw
        /\ CatalogFailure(catalogCall.answer) =>
              /\ catalogCall.ret = MOCK_CURRENCIES
              /\ catalogCall.toasts = 1
        /\ \A k \in 1..Len(catalogCall.ret) :
              catalogCall.ret[k].available =
                  (catalogCall.ret[k].send = Num(1) \/ catalogCall.ret[k].recv = Num(1))

\* the backend answered with code 0 and data that is no list: the fetch
\* returned the five entries of the fallback catalog with one notification
C21_Witness ==
    /\ catalogCall.pc = "done"
    /\ catalogCall.answer.kind = "data"
    /\ catalogCall.answer.code = 0
    /\ catalogCall.answer.shape = "object"
    /\ ~catalogCall.threw
    /\ Len(catalogCall.ret) = 5
    /\ catalogCall.ret = MOCK_CURRENCIES
    /\ catalogCall.toasts = 1

----------------------------------------------------------------------------
(* The saved flag and the tracked order *)

\* C22: in every reachable state of a session, if the saved flag has been set
\* to true by the save operation, the store contains a record whose
\* ff_order_id is the order id of the order the session currently tracks,
\* also after the tracked order changed to another order id (stated for the
\* sessions that track an order with an id).
C22_SavedImpliesRecordOfTrackedOrder ==
    \A s \in Sessions :
        (/\ transactionSaved[s]
         /\ orderDetails[s].present
         /\ orderDetails[s].orderId # NoId)
        => RowsFor(store, orderDetails[s].orderId) # {}

----------------------------------------------------------------------------
(* The delayed update of a recovery *)

\* C23: when the order object changes between the moment a recovery check
\* captures the order and the moment its delayed update is applied, the
\* applied update reverts no field other than currentStatus and
\* rawApiResponse to the captured value: the order id of the order the session
\* tracks is after the update what it was before it.
C23_UpdateKeepsOtherFields ==
    [][ \A i \in 1..Len(procs) :
          (/\ IsAt(i, "expired", "delayUpdate")
           /\ procs'[i].pc = "done"
           /\ orderDetails[procs[i].s].present) =>
              /\ orderDetails'[procs[i].s].present
              /\ orderDetails'[procs[i].s].orderId = orderDetails[procs[i].s].orderId
      ]_allVars

----------------------------------------------------------------------------
(* The save that a recovery triggers *)

\* recovery j found a record and its update has been applied
Recovered(j) ==
    /\ IsAt(j, "expired", "done")
    /\ procs[j].ret = "true"

\* the saves of the order that recovery j handed over, started after j
SavesAfterRecovery(j) ==
    { i \in 1..Len(procs) :
        /\ i > j
        /\ procs[i].kind = "save"
        /\ procs[i].s = procs[j].s
        /\ procs[i].od = procs[j].upd }

\* the store holds a record of the order that save i captured
HasRecord(i) == RowsFor(store, procs[i].od.orderId) # {}

\* C24: after a recovery check has found a record and updated the order to
\* completed, the save this update triggers never inserts a record for that
\* order id: it does not start (a precondition fails), or it aborts at the
\* query, or it finds the record and takes the update path; the store keeps
\* one record of the recovered order.  Stated step by step: the update
\* triggers saves of the updated order only, while the store holds the one
\* record of that order; a record once in the store stays, alone; and a save
\* at its query while the store holds a record of its order goes on to the
\* update path or ends, and never reaches the insert.
C24_RecoveredOrderNotInsertedAgain ==
    [][ /\ \A j \in 1..Len(procs) :
             (IsAt(j, "expired", "delayUpdate") /\ procs'[j].pc = "done") =>
                 /\ store' = store
                 /\ Cardinality(RowsFor(store, procs[j].od.orderId)) = 1
                 /\ \A i \in Started :
                       procs'[i].kind = "save" =>
                           /\ procs'[i].od = procs[j].upd
                           /\ procs'[i].od.orderId = procs[j].od.orderId
                           /\ procs'[i].ops = << "select" >>
        /\ \A id \in OrderIds :
             RowsFor(store, id) # {} => RowsFor(store', id) = RowsFor(store, id)
        /\ \A i \in 1..Len(procs) :
             (IsAt(i, "save", "select") /\ HasRecord(i) /\ procs'[i] # procs[i]) =>
                 /\ store' = store
                 /\ procs'[i].ops \in { << "select" >>, << "select", "update" >> }
                 /\ procs'[i].pc \in {"update", "done"}
                 /\ procs'[i].pc = "done" =>
                       procs'[i].resps \in { << "error" >>, << "throw" >>, << "rows" >> }
        /\ \A i \in 1..Len(procs) :
             (IsAt(i, "save", "update") /\ procs'[i] # procs[i]) =>
                 /\ Len(store') = Len(store)
                 /\ procs'[i].pc = "done"
                 /\ procs'[i].ops = procs[i].ops
      ]_allVars

\* the only change of the order so far was the report that it expired: the
\* recovery found the record of the order and updated the order; the save
\* this triggered found the record too and updated it, and the store holds
\* one record of the order
C24_Witness ==
    \E j \in 1..Len(procs) :
        /\ changes = 1
        /\ Recovered(j)
        /\ orderDetails[procs[j].s] = procs[j].upd
        /\ \E i \in SavesAfterRecovery(j) :
              /\ procs[i].pc = "done"
              /\ procs[i].ops = << "select", "update" >>
              /\ procs[i].resps = << "rows", "ok" >>
              /\ procs[i].saved
        /\ Cardinality(RowsFor(store, procs[j].od.orderId)) = 1

----------------------------------------------------------------------------
(* The bridge form *)

\* the submissions whose createBridgeTransaction has not settled
InFlight == { i \in 1..Len(submissions) : submissions[i].pc = "await" }

\* C25: in the bridge form at most one order submission
\* (createBridgeTransaction call) is in flight at any time: a submit event
\* that arrives while a previous submission has not finished starts no second
\* submission.
C25_OneSubmissionInFlight ==
    /\ [](Cardinality(InFlight) <= 1)
    /\ [][ InFlight # {} => Len(submissions') = Len(submissions) ]_allVars

\* the first submission is in flight, and a click that arrived meanwhile
\* returned at the guard
C25_Witness ==
    /\ Len(submissions) = 1
    /\ submissions[1].pc = "await"
    /\ isSubmitting
    /\ ignoredClicks

\* C26: every form submission eventually resets the submitting flag to false,
\* whether the order creation returned a result, returned nothing or threw;
\* the form navigates to the awaiting-deposit page only when the order
\* creation returned a result, and a thrown error is swallowed without
\* navigation.
C26_SubmissionResetsFlag ==
    /\ \A i \in 1..MaxSubmissions :
          (i \in InFlight) ~>
              (i \in 1..Len(submissions) /\ submissions[i].pc = "done" /\ ~isSubmitting)
    /\ [](isSubmitting => InFlight # {})
    /\ [][ \A i \in InFlight :
             submissions'[i].pc = "done" =>
                 /\ isSubmitting' = FALSE
                 /\ submissions'[i].outcome \in {"result", "nothing", "threw"}
                 /\ (submissions'[i].navigated # "") = (submissions'[i].outcome = "result")
                 /\ ~submissions'[i].rejected
         ]_allVars

\* three submissions have finished, one with a result and a navigation to its
\* order, one with nothing and one with an error, neither with a navigation,
\* and the flag is false
C26_Witness ==
    /\ Len(submissions) = 3
    /\ \A i \in 1..3 : submissions[i].pc = "done" /\ ~submissions[i].rejected
    /\ submissions[1].outcome = "result"
    /\ submissions[1].navigated = "FF-A"
    /\ submissions[2].outcome = "nothing"
    /\ submissions[2].navigated = ""
    /\ submissions[3].outcome = "threw"
    /\ submissions[3].navigated = ""
    /\ ~isSubmitting

====
